---- MODULE Spec2Model ----
(***************************************************************************)
(* A model of the ChotaCop backend (src/main.py): a FastAPI service that   *)
(* keeps four JSON files (users, quiz submissions, PDF files, chapter      *)
(* observations), mails OTPs and PDFs through an SMTP relay, and mirrors   *)
(* its data directory with a throttled git push.                           *)
(*                                                                         *)
(* Each JSON file is a variable holding the list the file contains.  Each  *)
(* request handler is one action; its inputs are drawn from small sets.    *)
(* Python dicts are TLA+ records (functions from strings), Python None is  *)
(* the record None and a present value v is Some(v).                       *)
(***************************************************************************)
EXTENDS Integers, Sequences, FiniteSets, TLC

VARIABLES
    users,           \* data/users.json
    submissions,     \* data/quiz_submissions.json
    observations,    \* data/chapter_observations.json
    pdf_files,       \* data/pdf_files.json
    last_push_time,  \* the module global of sync_git
    now,             \* the wall clock, in seconds
    pushes,          \* the git pushes sync_git has performed
    outbox,          \* the messages the SMTP relay has accepted
    pdf_pc,          \* the send_pdf handler in flight: its position and locals
    request,         \* the last request handled, with its inputs
    response,        \* the response to it
    signed_up,       \* history: the signups that succeeded
    uploaded,        \* history: the latest /upload payload of each email
    observed,        \* history: the latest complete /update-observation call of each chapter
    wk               \* the worker processes of the multi-worker deployment

vars == <<users, submissions, observations, pdf_files, last_push_time, now,
          pushes, outbox, pdf_pc, request, response, signed_up, uploaded,
          observed, wk>>

----------------------------------------------------------------------------
(* Bounds of the model *)

StartTime == 20
MaxTicks == 2
SyncTicks == 20
MaxSubs == 3
MaxBulk == 2
MaxPdfs == 2

(* Program constants *)

Cooldown == 10
NumQuestions == 13
NumRides == 7

----------------------------------------------------------------------------
(* Python values *)

None == [some |-> FALSE]

Some(v) == [some |-> TRUE, val |-> v]

Without(d, k) == [f \in (DOMAIN d) \ {k} |-> d[f]]

With(d, k, v) == [f \in (DOMAIN d) \cup {k} |-> IF f = k THEN v ELSE d[f]]

\* dict.update: the keys of update overwrite, the other keys stay
dict_update(d, update) ==
    [f \in (DOMAIN d) \cup (DOMAIN update) |->
        IF f \in DOMAIN update THEN update[f] ELSE d[f]]

\* datetime.utcnow().isoformat() of the instant t
isoformat(t) == "T" \o ToString(t)

Range(s) == {s[i] : i \in 1..Len(s)}

----------------------------------------------------------------------------
(* The JSON files and the list helpers *)

read_json_file(file) == file

\* a write that keeps the records other writers have stored meanwhile
write_json_file_merging(file, data) ==
    data \o SelectSeq(file, LAMBDA r : r \notin Range(data))

write_json_file(file, data) == data

Matches(item, key, value) == key \in DOMAIN item /\ item[key] = value

FirstMatch(data_list, key, value) ==
    IF \E i \in 1..Len(data_list) : Matches(data_list[i], key, value)
    THEN CHOOSE i \in 1..Len(data_list) :
            /\ Matches(data_list[i], key, value)
            /\ \A j \in 1..(i - 1) : ~Matches(data_list[j], key, value)
    ELSE 0

find_one(data_list, key, value) ==
    IF FirstMatch(data_list, key, value) = 0
    THEN None
    ELSE Some(data_list[FirstMatch(data_list, key, value)])

update_one(data_list, key, value, update) ==
    IF FirstMatch(data_list, key, value) = 0
    THEN data_list
    ELSE [data_list EXCEPT ![FirstMatch(data_list, key, value)] =
             dict_update(@, update)]

----------------------------------------------------------------------------
(* The throttled git sync *)

\* a throttle that restarts the cooldown at every call, skipped ones too
sync_git_skip_moves_timestamp(last, t) ==
    IF t - last < Cooldown
    THEN [last_push_time |-> t, pushed |-> FALSE]
    ELSE [last_push_time |-> t, pushed |-> TRUE]

sync_git(last, t) ==
    IF t - last < Cooldown
    THEN [last_push_time |-> last, pushed |-> FALSE]
    ELSE [last_push_time |-> t, pushed |-> TRUE]

Sync(commit_message) ==
    LET r == sync_git(last_push_time, now)
    IN  /\ last_push_time' = r.last_push_time
        /\ pushes' = IF r.pushed
                     THEN Append(pushes, [at |-> now, message |-> commit_message])
                     ELSE pushes

NoSync == UNCHANGED <<last_push_time, pushes>>

Tick(limit) ==
    /\ pdf_pc.at = "idle"
    /\ now < StartTime + limit
    /\ now' = now + 1
    /\ UNCHANGED <<users, submissions, observations, pdf_files, last_push_time,
                   pushes, outbox, pdf_pc, request, response, signed_up,
                   uploaded, observed, wk>>

----------------------------------------------------------------------------
(* Signup and signin *)

Emails == {"asha@yi.in", "ravi@yi.in", "admin@yi.in"}

ChapterNames == {"AB", "B", "a"}

UserIds == {"uuid-1", "uuid-2", "uuid-3", "uuid-4"}

\* uuid.uuid4(): an id no stored user has (which one does not matter)
uuid4(user_list) ==
    CHOOSE id \in UserIds : id \notin {u.user_id : u \in Range(user_list)}

UserResponse(user) ==
    [email |-> user.email, user_id |-> user.user_id, chapter |-> user.chapter]

\* signup that forgets the chapter check
signup_conflict_email_only(user_list, email, chapter_name) ==
    IF find_one(user_list, "email", email).some
    THEN Some("Email already registered")
    ELSE None

\* signup that forgets the email check
signup_conflict_chapter_only(user_list, email, chapter_name) ==
    IF find_one(user_list, "chapter", chapter_name).some
    THEN Some("Chapter already registered")
    ELSE None

signup_conflict(user_list, email, chapter_name) ==
    IF find_one(user_list, "email", email).some
    THEN Some("Email already registered")
    ELSE IF find_one(user_list, "chapter", chapter_name).some
         THEN Some("Chapter already registered")
         ELSE None

\* uuid is the value uuid.uuid4() draws; it is fresh among the stored ids
signup(email, chapter_name, uuid) ==
    /\ pdf_pc.at = "idle"
    /\ uuid \notin {u.user_id : u \in Range(users)}
    /\ request' = [op |-> "signup", email |-> email, chapter_name |-> chapter_name]
    /\ LET user_list == read_json_file(users)
           conflict == signup_conflict(user_list, email, chapter_name)
           user == [email |-> email, user_id |-> uuid, chapter |-> chapter_name,
                    created_at |-> isoformat(now)]
       IN  IF conflict.some
           THEN /\ response' = [op |-> "signup", status |-> 400,
                                body |-> [detail |-> conflict.val]]
                /\ UNCHANGED <<users, signed_up>>
                /\ NoSync
           ELSE /\ users' = write_json_file(users, Append(user_list, user))
                /\ signed_up' = signed_up \cup
                                  {[email |-> email, chapter |-> chapter_name]}
                /\ Sync("Auto sync from /signup")
                /\ response' = [op |-> "signup", status |-> 200,
                                body |-> UserResponse(user)]
    /\ UNCHANGED <<submissions, observations, pdf_files, now, outbox, pdf_pc,
                   uploaded, observed, wk>>

signin(email) ==
    /\ pdf_pc.at = "idle"
    /\ request' = [op |-> "signin", email |-> email]
    /\ LET user == find_one(read_json_file(users), "email", email)
       IN  response' = IF ~user.some
                       THEN [op |-> "signin", status |-> 404,
                             body |-> [detail |-> "User not found"]]
                       ELSE [op |-> "signin", status |-> 200,
                             body |-> UserResponse(user.val)]
    /\ UNCHANGED <<users, submissions, observations, pdf_files, last_push_time,
                   now, pushes, outbox, pdf_pc, signed_up, uploaded, observed, wk>>

api_signin(email) == signin(email)

----------------------------------------------------------------------------
(* Quiz submissions *)

QKey(q_num) == "q" \o ToString(q_num)

RideKey(ride_index) == "ride_" \o ToString(ride_index)

QKeys == {QKey(n) : n \in 1..NumQuestions}

\* The answers of one quiz: the sequence of q1 and the sequence of q2..q13.
\* Answers are List[int]: a value other than 0 and 1 passes validation.
AnswerSheets ==
    <<[first |-> <<1, 0, 1>>, rest |-> <<1>>],
      [first |-> <<1, 1>>, rest |-> <<>>],
      [first |-> <<0, 2>>, rest |-> <<1, 0, 1, 1, 0, 0, 1>>]>>

Answers(k) ==
    [q1 |-> AnswerSheets[k].first,
     q2 |-> AnswerSheets[k].rest, q3 |-> AnswerSheets[k].rest,
     q4 |-> AnswerSheets[k].rest, q5 |-> AnswerSheets[k].rest,
     q6 |-> AnswerSheets[k].rest, q7 |-> AnswerSheets[k].rest,
     q8 |-> AnswerSheets[k].rest, q9 |-> AnswerSheets[k].rest,
     q10 |-> AnswerSheets[k].rest, q11 |-> AnswerSheets[k].rest,
     q12 |-> AnswerSheets[k].rest, q13 |-> AnswerSheets[k].rest,
     c1 |-> k, c2 |-> k + 1, c3 |-> k + 2, c4 |-> k + 3, c5 |-> k + 4]

\* A validated /upload body: email is a plain str, not an EmailStr
QuizSubmission(email, chapter, k) ==
    dict_update(Answers(k),
                [email |-> email, chapter |-> chapter,
                 name |-> "Student " \o ToString(k), school |-> "School",
                 class_ |-> "Class " \o ToString(k)])

BulkSubmissionItem(k) == Answers(k)

BulkUploadRequest(chapter, items) ==
    [chapter |-> chapter, school |-> "School", submissions |-> items]

\* data.dict() with class_ renamed to class and created_at stamped
quiz_of(data, t) ==
    With(With(Without(data, "class_"), "class", data.class_),
         "created_at", isoformat(t))

\* an upload that never looks for the existing submission
upload_always_append(submission_list, quiz) == Append(submission_list, quiz)

upload_result(submission_list, quiz) ==
    IF find_one(submission_list, "email", quiz.email).some
    THEN update_one(submission_list, "email", quiz.email, quiz)
    ELSE Append(submission_list, quiz)

upload_quiz(data) ==
    /\ pdf_pc.at = "idle"
    /\ request' = [op |-> "upload", data |-> data]
    /\ LET quiz == quiz_of(data, now)
           submission_list == read_json_file(submissions)
       IN  /\ Len(upload_result(submission_list, quiz)) <= MaxSubs
           /\ submissions' =
                write_json_file(submissions, upload_result(submission_list, quiz))
    /\ uploaded' = {p \in uploaded : p.email # data.email} \cup {data}
    /\ Sync("Auto sync from /upload")
    /\ response' = [op |-> "upload", status |-> 200,
                    body |-> [message |-> "Quiz submission saved successfully"]]
    /\ UNCHANGED <<users, observations, pdf_files, now, outbox, pdf_pc,
                   signed_up, observed, wk>>

check_email_exists(email) ==
    /\ pdf_pc.at = "idle"
    /\ request' = [op |-> "check-mail", email |-> email]
    /\ response' = [op |-> "check-mail", status |-> 200,
                    body |-> [exists |->
                        find_one(read_json_file(submissions), "email", email).some]]
    /\ UNCHANGED <<users, submissions, observations, pdf_files, last_push_time,
                   now, pushes, outbox, pdf_pc, signed_up, uploaded, observed, wk>>

get_data_by_email(email) ==
    /\ pdf_pc.at = "idle"
    /\ request' = [op |-> "email-data", email |-> email]
    /\ response' = [op |-> "email-data", status |-> 200,
                    body |-> [data |->
                        SelectSeq(read_json_file(submissions),
                                  LAMBDA s : s.email = email)]]
    /\ UNCHANGED <<users, submissions, observations, pdf_files, last_push_time,
                   now, pushes, outbox, pdf_pc, signed_up, uploaded, observed, wk>>

\* f"bulk_{datetime.utcnow().timestamp()}_{len(submissions)}"
bulk_email(t, size) == "bulk_" \o ToString(t) \o "_" \o ToString(size)

bulk_new_submission(submission_list, item, chapter, school, t) ==
    dict_update(item,
                [email |-> bulk_email(t, Len(submission_list)),
                 chapter |-> chapter,
                 name |-> "Bulk Submission " \o ToString(Len(submission_list) + 1),
                 school |-> school,
                 class |-> "Bulk",
                 created_at |-> isoformat(t)])

RECURSIVE bulk_append(_, _, _, _, _)
bulk_append(submission_list, items, chapter, school, t) ==
    IF items = <<>>
    THEN submission_list
    ELSE bulk_append(
             Append(submission_list,
                    bulk_new_submission(submission_list, Head(items),
                                        chapter, school, t)),
             Tail(items), chapter, school, t)

bulk_upload_quiz(data) ==
    /\ pdf_pc.at = "idle"
    /\ Len(submissions) + Len(data.submissions) <= MaxSubs
    /\ request' = [op |-> "bulk-upload", data |-> data]
    /\ submissions' =
         write_json_file(submissions,
             bulk_append(read_json_file(submissions), data.submissions,
                         data.chapter, data.school, now))
    /\ Sync("Auto sync from /bulk-upload")
    /\ response' = [op |-> "bulk-upload", status |-> 200,
                    body |-> [message |->
                        "Successfully uploaded " \o ToString(Len(data.submissions))
                          \o " quiz submissions"]]
    /\ UNCHANGED <<users, observations, pdf_files, now, outbox, pdf_pc,
                   signed_up, uploaded, observed, wk>>

----------------------------------------------------------------------------
(* Chapter observations *)

\* A parsed JSON value: its Python type and its text
PyVal(type, repr) == [type |-> type, repr |-> repr]

\* bool(v) of a parsed JSON value
truthy(v) ==
    ~ \/ v.type = "NoneType"
      \/ v.type = "bool" /\ v.repr = "False"
      \/ v.type = "int" /\ v.repr = "0"
      \/ v.type = "str" /\ v.repr = ""
      \/ v.type = "dict" /\ v.repr = "{}"
      \/ v.type = "list" /\ v.repr = "[]"

\* dict.get(key): None when the key is absent or its value is JSON null
dict_get(d, key) ==
    IF key \in DOMAIN d /\ d[key].type # "NoneType" THEN Some(d[key]) ELSE None

\* `not x` of a value dict.get returned
falsy(x) == ~x.some \/ ~truthy(x.val)

observation_rejected(chapter, data) == falsy(chapter) \/ falsy(data)

update_observation(body) ==
    /\ pdf_pc.at = "idle"
    /\ request' = [op |-> "update-observation", body |-> body]
    /\ LET chapter == dict_get(body, "chapter")
           data == dict_get(body, "data")
           observation_list == read_json_file(observations)
           stamp == [data |-> data.val, updated_at |-> isoformat(now)]
       IN  /\ observed' =
                IF chapter.some /\ data.some
                THEN {o \in observed : o.chapter # chapter.val.repr}
                       \cup {[chapter |-> chapter.val.repr, data |-> data.val]}
                ELSE observed
           /\ IF observation_rejected(chapter, data)
              THEN /\ response' = [op |-> "update-observation", status |-> 400,
                                   body |-> [detail |-> "Missing 'chapter' or 'data'"]]
                   /\ UNCHANGED observations
                   /\ NoSync
              ELSE /\ observations' =
                        write_json_file(observations,
                          IF find_one(observation_list, "chapter", chapter.val.repr).some
                          THEN update_one(observation_list, "chapter",
                                          chapter.val.repr, stamp)
                          ELSE Append(observation_list,
                                      dict_update([chapter |-> chapter.val.repr],
                                                  stamp)))
                   /\ Sync("Auto sync from /update-observation")
                   /\ response' = [op |-> "update-observation", status |-> 200,
                                   body |-> [message |->
                                       "Observation data added or updated"]]
    /\ UNCHANGED <<users, submissions, pdf_files, now, outbox, pdf_pc,
                   signed_up, uploaded, wk>>

----------------------------------------------------------------------------
(* Chapter data: the aggregation *)

\* ord() of the characters of the chapter names the model uses
CodePoints(s) ==
    CASE s = "" -> <<>>
      [] s = "AB" -> <<65, 66>>
      [] s = "B" -> <<66>>
      [] s = "a" -> <<97>>
      [] s = "ALL_Chapter" -> <<65, 76, 76, 95, 67, 104, 97, 112, 116, 101, 114>>

\* Python's < on str: by code point, a proper prefix first
str_lt(a, b) ==
    LET x == CodePoints(a)
        y == CodePoints(b)
    IN  \E k \in 0..Len(x) :
          /\ k <= Len(y)
          /\ \A j \in 1..k : x[j] = y[j]
          /\ \/ k = Len(x) /\ k < Len(y)
             \/ k < Len(x) /\ k < Len(y) /\ x[k + 1] < y[k + 1]

\* list(S) followed by list.sort()
RECURSIVE sorted(_)
sorted(S) ==
    IF S = {}
    THEN <<>>
    ELSE LET m == CHOOSE m \in S : \A o \in S \ {m} : str_lt(m, o)
         IN  <<m>> \o sorted(S \ {m})

RideIndexOf(key) == CHOOSE r \in 0..(NumRides - 1) : RideKey(r) = key

RideKeys == {RideKey(r) : r \in 0..(NumRides - 1)}

submissions_of(submission_list, chapter) ==
    SelectSeq(submission_list, LAMBDA sub : sub.chapter = chapter)

(* The branch of a single chapter *)

\* a tally that counts a sequence too short for the ride as a zero
ride_stats_short_is_zero(chapter_submissions, q_key, ride_index) ==
    LET n == Len(chapter_submissions)
        ones == Cardinality({i \in 1..n :
                    /\ Len(chapter_submissions[i][q_key]) > ride_index
                    /\ chapter_submissions[i][q_key][ride_index + 1] = 1})
        zeros == Cardinality({i \in 1..n :
                    \/ Len(chapter_submissions[i][q_key]) <= ride_index
                    \/ chapter_submissions[i][q_key][ride_index + 1] = 0})
    IN  [ones |-> ones, zeros |-> zeros, total |-> ones + zeros]

ride_stats(chapter_submissions, q_key, ride_index) ==
    LET n == Len(chapter_submissions)
        ones == Cardinality({i \in 1..n :
                    /\ Len(chapter_submissions[i][q_key]) > ride_index
                    /\ chapter_submissions[i][q_key][ride_index + 1] = 1})
        zeros == Cardinality({i \in 1..n :
                    /\ Len(chapter_submissions[i][q_key]) > ride_index
                    /\ chapter_submissions[i][q_key][ride_index + 1] = 0})
    IN  [ones |-> ones, zeros |-> zeros, total |-> ones + zeros]

question_stats(chapter_submissions, q_key) ==
    [total_submissions |-> Len(chapter_submissions),
     rides |-> [key \in RideKeys |->
                  ride_stats(chapter_submissions, q_key, RideIndexOf(key))]]

chapter_data(chapter, submission_list, observation_list) ==
    LET chapter_submissions == submissions_of(submission_list, chapter)
        chapter_observation == find_one(observation_list, "chapter", chapter)
    IN  IF chapter_submissions = <<>> /\ ~chapter_observation.some
        THEN [chapter |-> chapter,
              total_submissions |-> 0,
              question_stats |-> <<>>,
              observation |-> None]
        ELSE [chapter |-> chapter,
              total_submissions |-> Len(chapter_submissions),
              question_stats |->
                 [q_key \in QKeys |-> question_stats(chapter_submissions, q_key)],
              observation |-> IF chapter_observation.some
                              THEN Some(chapter_observation.val.data)
                              ELSE None]

(* The branch of ALL_Chapter *)

\* the chapters of the submissions alone
all_chapters_of_submissions(submission_list, observation_list) ==
    sorted({sub.chapter : sub \in Range(submission_list)})

all_chapters(submission_list, observation_list) ==
    sorted({sub.chapter : sub \in Range(submission_list)}
             \cup {o.chapter : o \in Range(observation_list)})

all_ride_stats(chapter_submissions, q_key, ride_index) ==
    LET n == Len(chapter_submissions)
        ones == Cardinality({i \in 1..n :
                    /\ Len(chapter_submissions[i][q_key]) > ride_index
                    /\ chapter_submissions[i][q_key][ride_index + 1] = 1})
        zeros == Cardinality({i \in 1..n :
                    /\ Len(chapter_submissions[i][q_key]) > ride_index
                    /\ chapter_submissions[i][q_key][ride_index + 1] = 0})
    IN  [ones |-> ones, zeros |-> zeros, total |-> ones + zeros]

all_question_stats(chapter_submissions, q_key) ==
    [total_submissions |-> Len(chapter_submissions),
     rides |-> [key \in RideKeys |->
                  all_ride_stats(chapter_submissions, q_key, RideIndexOf(key))]]

\* The dict all_chapter_data, in insertion order: one entry for each chapter
all_chapter_data(submission_list, observation_list) ==
    LET chapters == all_chapters(submission_list, observation_list)
    IN  [i \in 1..Len(chapters) |->
           LET chapter_name == chapters[i]
               chapter_submissions == submissions_of(submission_list, chapter_name)
               chapter_observation ==
                   find_one(observation_list, "chapter", chapter_name)
           IN  [key |-> chapter_name,
                value |->
                  [total_submissions |-> Len(chapter_submissions),
                   question_stats |->
                      [q_key \in QKeys |->
                          all_question_stats(chapter_submissions, q_key)],
                   observation |-> IF chapter_observation.some
                                   THEN Some(chapter_observation.val.data)
                                   ELSE None]]]

get_chapter_data(payload) ==
    /\ pdf_pc.at = "idle"
    /\ request' = [op |-> "chapter-data", payload |-> payload]
    /\ LET user_id == dict_get(payload, "user_id")
           user == find_one(read_json_file(users), "user_id",
                            IF user_id.some THEN user_id.val.repr ELSE "")
           submission_list == read_json_file(submissions)
           observation_list == read_json_file(observations)
       IN  response' =
             IF falsy(user_id)
             THEN [op |-> "chapter-data", status |-> 400,
                   body |-> [detail |-> "Missing 'user_id'"]]
             ELSE IF ~user.some
             THEN [op |-> "chapter-data", status |-> 404,
                   body |-> [detail |-> "User not found"]]
             ELSE IF user.val.chapter = "ALL_Chapter"
             THEN [op |-> "chapter-data", status |-> 200,
                   body |-> [chapter |-> "ALL_Chapter",
                             chapters |-> all_chapter_data(submission_list,
                                                           observation_list)]]
             ELSE [op |-> "chapter-data", status |-> 200,
                   body |-> chapter_data(user.val.chapter, submission_list,
                                         observation_list)]
    /\ UNCHANGED <<users, submissions, observations, pdf_files, last_push_time,
                   now, pushes, outbox, pdf_pc, signed_up, uploaded, observed, wk>>

----------------------------------------------------------------------------
(* OTP and PDF mail *)

\* What the SMTP relay does with one message: accepts it, or raises err
SmtpOutcomes ==
    {[ok |-> TRUE, err |-> ""],
     [ok |-> FALSE, err |-> "Connection refused"],
     [ok |-> FALSE, err |-> "(535, 'Authentication failed')"]}

send_otp_via_gmail(otp, recipient_email, smtp) ==
    IF smtp.ok THEN "OTP sent successfully" ELSE "Failed to send OTP: " \o smtp.err

send_pdf_via_gmail(pdf_data, recipient_email, smtp) ==
    IF smtp.ok THEN "PDF sent successfully" ELSE "Failed to send PDF: " \o smtp.err

\* an OTP handler that answers 200 with the gateway's string, as send_pdf does
send_otp_response_swallowed(result) ==
    [op |-> "send-otp", status |-> 200, body |-> [message |-> result]]

send_otp_response(result) ==
    IF result = "OTP sent successfully"
    THEN [op |-> "send-otp", status |-> 200,
          body |-> [message |-> "OTP sent successfully"]]
    ELSE [op |-> "send-otp", status |-> 500, body |-> [detail |-> result]]

send_otp(email, otp, smtp) ==
    /\ pdf_pc.at = "idle"
    /\ request' = [op |-> "send-otp", email |-> email, otp |-> otp, smtp |-> smtp]
    /\ outbox' = IF smtp.ok
                 THEN outbox \cup
                        {[to |-> email, subject |-> "Your OTP Code",
                          content |-> <<"Hi,\n\nYour OTP is: " \o otp
                                          \o "\n\nThanks,\nChotaCop Team">>]}
                 ELSE outbox
    /\ response' = send_otp_response(send_otp_via_gmail(otp, email, smtp))
    /\ UNCHANGED <<users, submissions, observations, pdf_files, last_push_time,
                   now, pushes, pdf_pc, signed_up, uploaded, observed, wk>>

HexDigits ==
    <<"0", "1", "2", "3", "4", "5", "6", "7",
      "8", "9", "a", "b", "c", "d", "e", "f">>

\* bytes.hex(): two hexadecimal digits for each byte
RECURSIVE hex(_)
hex(bytes) ==
    IF bytes = <<>>
    THEN <<>>
    ELSE <<HexDigits[(Head(bytes) \div 16) + 1], HexDigits[(Head(bytes) % 16) + 1]>>
           \o hex(Tail(bytes))

HexValue(digit) == CHOOSE v \in 0..15 : HexDigits[v + 1] = digit

\* bytes.fromhex() of a string of hexadecimal digit pairs
RECURSIVE fromhex(_)
fromhex(digits) ==
    IF digits = <<>>
    THEN <<>>
    ELSE <<16 * HexValue(digits[1]) + HexValue(digits[2])>>
           \o fromhex(SubSeq(digits, 3, Len(digits)))

\* send_pdf up to the call of the mail gateway: the record is appended and
\* the file written
send_pdf_store(filename, file_data, email) ==
    /\ pdf_pc.at = "idle"
    /\ Len(pdf_files) < MaxPdfs
    /\ request' = [op |-> "send-pdf", filename |-> filename,
                   file_data |-> file_data, email |-> email]
    /\ LET pdf_entry == [filename |-> filename, content |-> hex(file_data),
                         email |-> email, uploaded_at |-> isoformat(now)]
       IN  /\ pdf_files' = write_json_file(pdf_files,
                               Append(read_json_file(pdf_files), pdf_entry))
           /\ pdf_pc' = [at |-> "mail", pdf_entry |-> pdf_entry, email |-> email]
    /\ UNCHANGED <<users, submissions, observations, last_push_time, now, pushes,
                   outbox, response, signed_up, uploaded, observed, wk>>

\* send_pdf from the call of the mail gateway to the response
send_pdf_mail(smtp) ==
    /\ pdf_pc.at = "mail"
    /\ request' = With(request, "smtp", smtp)
    /\ LET file_data == fromhex(pdf_pc.pdf_entry.content)
       IN  /\ outbox' = IF smtp.ok
                        THEN outbox \cup
                               {[to |-> pdf_pc.email, subject |-> "Your PDF File",
                                 content |-> file_data]}
                        ELSE outbox
           /\ response' = [op |-> "send-pdf", status |-> 200,
                           body |-> [message |->
                               send_pdf_via_gmail(file_data, pdf_pc.email, smtp)]]
    /\ pdf_pc' = [at |-> "idle"]
    /\ UNCHANGED <<users, submissions, observations, pdf_files, last_push_time,
                   now, pushes, signed_up, uploaded, observed, wk>>

----------------------------------------------------------------------------
(* Worker processes: the same handlers run by several server processes on  *)
(* the same data directory.  A handler's read of a file and its write of   *)
(* the file are two steps, and the steps of other workers may fall between *)
(* them.  last_push_time is a global of each process.                      *)

Workers == {"w1", "w2"}

WorkerSync(w, commit_message) ==
    LET r == sync_git(wk[w].last_push_time, now)
    IN  pushes' = IF r.pushed
                  THEN Append(pushes, [at |-> now, message |-> commit_message])
                  ELSE pushes

worker_upload_read(w, data) ==
    /\ wk[w].pc = "idle"
    /\ wk' = [wk EXCEPT ![w] =
                [pc |-> "upload", data |-> data, quiz |-> quiz_of(data, now),
                 snapshot |-> read_json_file(submissions),
                 last_push_time |-> @.last_push_time, response |-> @.response]]
    /\ UNCHANGED <<users, submissions, observations, pdf_files, last_push_time,
                   now, pushes, outbox, pdf_pc, request, response, signed_up,
                   uploaded, observed>>

worker_upload_write(w) ==
    /\ wk[w].pc = "upload"
    /\ submissions' = write_json_file(submissions,
                          upload_result(wk[w].snapshot, wk[w].quiz))
    /\ uploaded' = {p \in uploaded : p.email # wk[w].data.email} \cup {wk[w].data}
    /\ WorkerSync(w, "Auto sync from /upload")
    /\ wk' = [wk EXCEPT ![w] =
                [pc |-> "idle",
                 last_push_time |-> sync_git(@.last_push_time, now).last_push_time,
                 response |-> [op |-> "upload", status |-> 200, email |-> @.data.email,
                               body |-> [message |->
                                   "Quiz submission saved successfully"]]]]
    /\ UNCHANGED <<users, observations, pdf_files, last_push_time, now, outbox,
                   pdf_pc, request, response, signed_up, observed>>

worker_signup_read(w, email, chapter_name, uuid) ==
    /\ wk[w].pc = "idle"
    /\ LET user_list == read_json_file(users)
           conflict == signup_conflict(user_list, email, chapter_name)
       IN  wk' = [wk EXCEPT ![w] =
                IF conflict.some
                THEN [pc |-> "idle", last_push_time |-> @.last_push_time,
                      response |-> [op |-> "signup", status |-> 400,
                                    body |-> [detail |-> conflict.val]]]
                ELSE [pc |-> "signup", snapshot |-> user_list,
                      user |-> [email |-> email, user_id |-> uuid,
                                chapter |-> chapter_name,
                                created_at |-> isoformat(now)],
                      last_push_time |-> @.last_push_time,
                      response |-> @.response]]
    /\ UNCHANGED <<users, submissions, observations, pdf_files, last_push_time,
                   now, pushes, outbox, pdf_pc, request, response, signed_up,
                   uploaded, observed>>

worker_signup_write(w) ==
    /\ wk[w].pc = "signup"
    /\ users' = write_json_file(users, Append(wk[w].snapshot, wk[w].user))
    /\ signed_up' = signed_up \cup
                      {[email |-> wk[w].user.email, chapter |-> wk[w].user.chapter]}
    /\ WorkerSync(w, "Auto sync from /signup")
    /\ wk' = [wk EXCEPT ![w] =
                [pc |-> "idle",
                 last_push_time |-> sync_git(@.last_push_time, now).last_push_time,
                 response |-> [op |-> "signup", status |-> 200,
                               body |-> UserResponse(@.user)]]]
    /\ UNCHANGED <<submissions, observations, pdf_files, last_push_time, now,
                   outbox, pdf_pc, request, response, uploaded, observed>>

----------------------------------------------------------------------------
(* The initial state: the four files initialised to empty lists *)

Init ==
    /\ users = <<>>
    /\ submissions = <<>>
    /\ observations = <<>>
    /\ pdf_files = <<>>
    /\ last_push_time = 0
    /\ now = StartTime
    /\ pushes = <<>>
    /\ outbox = {}
    /\ pdf_pc = [at |-> "idle"]
    /\ request = [op |-> "none"]
    /\ response = [op |-> "none"]
    /\ signed_up = {}
    /\ uploaded = {}
    /\ observed = {}
    /\ wk = [w \in Workers |-> [pc |-> "idle", last_push_time |-> 0,
                              response |-> [op |-> "none"]]]

----------------------------------------------------------------------------
(* Signup and signin requests, one at a time *)

NextAuth ==
    \/ \E e \in Emails, c \in ChapterNames : signup(e, c, uuid4(users))
    \/ \E e \in Emails : signin(e)
    \/ \E e \in Emails : api_signin(e)
    \/ Tick(MaxTicks)

SpecAuth == Init /\ [][NextAuth]_vars

----------------------------------------------------------------------------
(* /upload, /check-mail and /email-data requests, one at a time *)

UploadEmails == {"asha@yi.in", "ravi@yi.in"}

UploadInputs ==
    {QuizSubmission(e, c, k) : e \in UploadEmails, c \in {"AB", "B"}, k \in 1..2}

NextUpload ==
    \/ \E d \in UploadInputs : upload_quiz(d)
    \/ \E e \in UploadEmails : check_email_exists(e)
    \/ \E e \in UploadEmails : get_data_by_email(e)
    \/ Tick(MaxTicks)

SpecUpload == Init /\ [][NextUpload]_vars

----------------------------------------------------------------------------
(* /upload and /bulk-upload requests, one at a time.  The email of an      *)
(* upload is any string, one of the form bulk_<timestamp>_<size> included. *)

ForgedEmail == bulk_email(StartTime + 1, 1)

BulkSpecUploads ==
    {QuizSubmission(e, "B", 1) : e \in {"asha@yi.in", ForgedEmail}}

RECURSIVE ItemLists(_)
ItemLists(n) ==
    IF n = 0
    THEN {<<>>}
    ELSE ItemLists(n - 1) \cup
         {Append(l, BulkSubmissionItem(k)) :
             l \in {m \in ItemLists(n - 1) : Len(m) = n - 1}, k \in 1..2}

BulkInputs == {BulkUploadRequest("B", l) : l \in ItemLists(MaxBulk)}

NextBulk ==
    \/ \E d \in BulkSpecUploads : upload_quiz(d)
    \/ \E d \in BulkInputs : bulk_upload_quiz(d)
    \/ Tick(MaxTicks)

SpecBulk == Init /\ [][NextBulk]_vars

----------------------------------------------------------------------------
(* /update-observation requests, one at a time *)

NoteData == PyVal("dict", "{\"note\": \"ok\"}")

ObservationData == {NoteData, PyVal("str", "late"), PyVal("dict", "{}")}

ObservationBodies ==
    {[chapter |-> PyVal("str", c), data |-> d] :
        c \in {"AB", "B"}, d \in ObservationData}
      \cup {[chapter |-> PyVal("str", "B")],
            [data |-> NoteData],
            [chapter |-> PyVal("str", "B"), data |-> PyVal("NoneType", "None")],
            [chapter |-> PyVal("str", ""), data |-> NoteData]}

NextObs ==
    \/ \E b \in ObservationBodies : update_observation(b)
    \/ Tick(MaxTicks)

SpecObs == Init /\ [][NextObs]_vars

----------------------------------------------------------------------------
(* The requests that feed and read the aggregation, one at a time *)

AggUploads ==
    {QuizSubmission("asha@yi.in", c, k) : c \in {"B", "a"}, k \in {1, 3}}
      \cup {QuizSubmission("ravi@yi.in", c, 2) : c \in {"B", "a"}}

AggBodies ==
    {[chapter |-> PyVal("str", c), data |-> NoteData] : c \in {"AB", "B"}}
      \cup {[chapter |-> PyVal("str", "B"), data |-> PyVal("str", "late")]}

AggPayloads ==
    {[user_id |-> PyVal("str", id)] : id \in {"uuid-1", "uuid-2", "uuid-3"}}
      \cup {<<>>}

NextAgg ==
    \/ signup("admin@yi.in", "ALL_Chapter", uuid4(users))
    \/ signup("asha@yi.in", "B", uuid4(users))
    \/ \E d \in AggUploads : upload_quiz(d)
    \/ \E b \in AggBodies : update_observation(b)
    \/ \E p \in AggPayloads : get_chapter_data(p)

SpecAgg == Init /\ [][NextAgg]_vars

----------------------------------------------------------------------------
(* /send-otp and /send-pdf requests, one at a time *)

PdfFiles == {<<37, 80, 68, 70>>, <<0, 255>>}

NextMail ==
    \/ \E e \in {"asha@yi.in", "ravi@yi.in"}, smtp \in SmtpOutcomes :
          send_otp(e, "493817", smtp)
    \/ \E f \in PdfFiles : send_pdf_store("report.pdf", f, "asha@yi.in")
    \/ \E smtp \in SmtpOutcomes : send_pdf_mail(smtp)
    \/ Tick(MaxTicks)

SpecMail == Init /\ [][NextMail]_vars

----------------------------------------------------------------------------
(* Writing requests over a span of time longer than two cooldowns *)

SyncUploads == {QuizSubmission("asha@yi.in", "B", 1)}

SyncBodies == {[chapter |-> PyVal("str", "B"), data |-> NoteData],
               [chapter |-> PyVal("str", "B")]}

NextSync ==
    \/ \E d \in SyncUploads : upload_quiz(d)
    \/ \E b \in SyncBodies : update_observation(b)
    \/ Tick(SyncTicks)

SpecSync == Init /\ [][NextSync]_vars

----------------------------------------------------------------------------
(* Two worker processes handling /upload and /signup requests *)

WorkerUploads == {QuizSubmission(e, "B", 1) : e \in {"asha@yi.in", "ravi@yi.in"}}

NextWorkers ==
    \/ \E w \in Workers, d \in WorkerUploads : worker_upload_read(w, d)
    \/ \E w \in Workers : worker_upload_write(w)
    \/ \E w \in Workers, e \in {"asha@yi.in", "ravi@yi.in"} :
          worker_signup_read(w, e, "B", uuid4(users))
    \/ \E w \in Workers : worker_signup_write(w)

SpecWorkers == Init /\ [][NextWorkers]_vars

----------------------------------------------------------------------------
(* All requests, one at a time *)

Next ==
    \/ NextAuth
    \/ NextUpload
    \/ NextBulk
    \/ NextObs
    \/ NextAgg
    \/ NextMail
    \/ NextSync

Spec == Init /\ [][Next]_vars

----------------------------------------------------------------------------
(* The claims *)

EmailsOf(list) == {r.email : r \in Range(list)}

IndicesOf(list, key, value) == {i \in 1..Len(list) : list[i][key] = value}

\* C3: after any sequence of /upload requests the submission set holds
\* exactly one record for each uploaded email, and the record's submitted
\* fields are those of the latest upload for that email.
C3_UploadReplaces ==
    /\ Len(submissions) = Cardinality({p.email : p \in uploaded})
    /\ \A p \in uploaded :
         /\ Cardinality(IndicesOf(submissions, "email", p.email)) = 1
         /\ \A i \in IndicesOf(submissions, "email", p.email) :
              Without(submissions[i], "created_at")
                = With(Without(p, "class_"), "class", p.class_)

\* a second upload for an email has replaced the first record
C3_Witness ==
    /\ Len(submissions) = 2
    /\ request.op = "upload"
    /\ submissions[1].email = request.data.email
    /\ submissions[1].created_at # isoformat(StartTime)
    /\ submissions[1].q1 = AnswerSheets[2].first
    /\ submissions[2].created_at = isoformat(StartTime)

UsersUnique ==
    \A i, j \in 1..Len(users) :
        i # j => /\ users[i].email # users[j].email
                 /\ users[i].chapter # users[j].chapter

UsersAppendOnly ==
    /\ Len(users') >= Len(users)
    /\ SubSeq(users', 1, Len(users)) = users

\* C4: no two users share an email, no two users share a chapter, and the
\* users set only grows by appending: no stored user is changed or removed.
C4_UsersUniqueAppendOnly == [](UsersUnique) /\ [][UsersAppendOnly]_vars

\* two users are stored and a third signup was refused for its chapter
C4_Witness ==
    /\ Len(users) = 2
    /\ response.op = "signup"
    /\ response.status = 400
    /\ response.body.detail = "Chapter already registered"

\* C5: once signup(e, c) has succeeded, every later signup with email e or
\* with chapter c fails with status 400, leaves the users set unchanged and
\* triggers no sync.
C5_SignupRejects ==
    [][\A e \in Emails, c \in ChapterNames, id \in UserIds :
          (/\ signup(e, c, id)
           /\ \E p \in signed_up : p.email = e \/ p.chapter = c)
          => /\ response'.status = 400
             /\ users' = users
             /\ pushes' = pushes
             /\ last_push_time' = last_push_time]_vars

\* a signup with a registered email and a new chapter was refused
C5_Witness ==
    /\ response.op = "signup"
    /\ response.status = 400
    /\ response.body.detail = "Email already registered"
    /\ request.chapter_name \notin {u.chapter : u \in Range(users)}
    /\ Len(users) = 1

\* C6: a bulk upload of N items grows the submission set by exactly N, and
\* each new record's email differs from the email of every other record of
\* the set.
C6_BulkEmailsUnique ==
    [][\A d \in BulkInputs :
          bulk_upload_quiz(d) =>
            LET n == Len(d.submissions)
                old == Len(submissions)
            IN  /\ Len(submissions') = old + n
                /\ \A i \in (old + 1)..(old + n) :
                     \A j \in 1..(old + n) :
                        j # i => submissions'[i].email # submissions'[j].email]_vars

\* The chapter-data results of the last response: each with its chapter
ChapterResults ==
    IF response.op = "chapter-data" /\ response.status = 200
    THEN IF "chapters" \in DOMAIN response.body
         THEN {[chapter |-> e.key, data |-> e.value] :
                  e \in Range(response.body.chapters)}
         ELSE {[chapter |-> response.body.chapter, data |-> response.body]}
    ELSE {}

AllChapterResponse ==
    /\ response.op = "chapter-data"
    /\ response.status = 200
    /\ "chapters" \in DOMAIN response.body

AllChapterKeys ==
    /\ {e.key : e \in Range(response.body.chapters)}
         = {sub.chapter : sub \in Range(submissions)}
             \cup {o.chapter : o \in Range(observations)}
    /\ \A i, j \in 1..Len(response.body.chapters) :
          i < j => str_lt(response.body.chapters[i].key,
                          response.body.chapters[j].key)

C2_RideCounts ==
    \A r \in ChapterResults :
       DOMAIN r.data.question_stats # {} =>
          LET subs == submissions_of(submissions, r.chapter)
          IN  /\ r.data.total_submissions = Len(subs)
              /\ DOMAIN r.data.question_stats = QKeys
              /\ \A q \in QKeys :
                   /\ r.data.question_stats[q].total_submissions = Len(subs)
                   /\ DOMAIN r.data.question_stats[q].rides = RideKeys
                   /\ \A ride \in 0..(NumRides - 1) :
                        LET st == r.data.question_stats[q].rides[RideKey(ride)]
                        IN  /\ st.ones + st.zeros = st.total
                            /\ st.total <= Len(subs)
                            /\ st.total = Len(subs) =>
                                 \A i \in 1..Len(subs) : Len(subs[i][q]) > ride

\* the result of one chapter with two submissions, q1 = [1,0,1] and [1,1]:
\* ride_0 counts both, ride_2 counts only the longer one
C2_Witness ==
    /\ response.op = "chapter-data"
    /\ response.status = 200
    /\ "chapters" \notin DOMAIN response.body
    /\ response.body.total_submissions = 2
    /\ response.body.question_stats["q1"].rides["ride_0"]
         = [ones |-> 2, zeros |-> 0, total |-> 2]
    /\ response.body.question_stats["q1"].rides["ride_2"]
         = [ones |-> 1, zeros |-> 0, total |-> 1]

Present(body, key) == key \in DOMAIN body /\ body[key].type # "NoneType"

\* C7: the observation set holds at most one record for each chapter, whose
\* data is that of the latest call that gave both chapter and data; a call
\* fails, with status 400, exactly when chapter or data is absent.
C7_ObservationUpsert ==
    /\ \A i, j \in 1..Len(observations) :
          i # j => observations[i].chapter # observations[j].chapter
    /\ \A o \in observed :
          \E i \in 1..Len(observations) :
             /\ observations[i].chapter = o.chapter
             /\ observations[i].data = o.data
    /\ response.op = "update-observation" =>
          /\ response.status \in {200, 400}
          /\ response.status = 400 <=>
                ~(Present(request.body, "chapter") /\ Present(request.body, "data"))

\* C8: send_pdf has appended the PdfRecord when it calls the mail gateway,
\* and answers 200 with the gateway's string also when the gateway fails, the
\* record staying stored; send_otp answers 500 with the gateway's failure
\* string when the gateway fails and 200 only when it succeeds.
C8_MailFailurePaths ==
    /\ pdf_pc.at = "mail" =>
          /\ pdf_files # <<>>
          /\ pdf_files[Len(pdf_files)] = pdf_pc.pdf_entry
          /\ pdf_pc.pdf_entry.email = request.email
          /\ fromhex(pdf_pc.pdf_entry.content) = request.file_data
    /\ response.op = "send-pdf" /\ request.op = "send-pdf" /\ pdf_pc.at = "idle" =>
          /\ response.status = 200
          /\ response.body.message =
                IF request.smtp.ok
                THEN "PDF sent successfully"
                ELSE "Failed to send PDF: " \o request.smtp.err
          /\ pdf_files # <<>>
          /\ pdf_files[Len(pdf_files)].email = request.email
          /\ pdf_files[Len(pdf_files)].filename = request.filename
          /\ pdf_files[Len(pdf_files)].content = hex(request.file_data)
    /\ response.op = "send-otp" /\ request.op = "send-otp" =>
          /\ response.status = 200 <=> request.smtp.ok
          /\ ~request.smtp.ok =>
                /\ response.status = 500
                /\ response.body.detail = "Failed to send OTP: " \o request.smtp.err

\* a PDF whose mail failed is stored and answered with 200
C8_Witness ==
    /\ response.op = "send-pdf"
    /\ request.op = "send-pdf"
    /\ pdf_pc.at = "idle"
    /\ ~request.smtp.ok
    /\ response.status = 200
    /\ Len(pdf_files) = 2
    /\ outbox = {}

SyncingStep ==
    \/ \E d \in SyncUploads : upload_quiz(d)
    \/ /\ \E b \in SyncBodies : update_observation(b)
       /\ response'.status = 200

PushesApart ==
    \A i, j \in 1..Len(pushes) :
        i < j => pushes[j].at - pushes[i].at >= 10

\* C9: a sync call less than 10 seconds after the last performed push is
\* skipped and leaves the timestamp alone, a call 10 seconds or more after
\* it (or the first call) pushes and sets the timestamp to the current time;
\* two pushes are at least 10 seconds apart; the upload that made a skipped
\* call is persisted all the same.
C9_SyncThrottle ==
    /\ [](PushesApart)
    /\ [](last_push_time = IF pushes = <<>> THEN 0 ELSE pushes[Len(pushes)].at)
    /\ [][SyncingStep =>
            IF pushes # <<>> /\ now - pushes[Len(pushes)].at < 10
            THEN /\ pushes' = pushes
                 /\ last_push_time' = last_push_time
            ELSE /\ Len(pushes') = Len(pushes) + 1
                 /\ SubSeq(pushes', 1, Len(pushes)) = pushes
                 /\ pushes'[Len(pushes')].at = now
                 /\ last_push_time' = now]_vars
    /\ [][\A d \in SyncUploads :
            upload_quiz(d) =>
               \E i \in 1..Len(submissions') :
                  submissions'[i] = quiz_of(d, now)]_vars

\* two pushes exactly 10 seconds apart, and a later upload whose sync was
\* skipped and whose record is stored
C9_Witness ==
    /\ Len(pushes) = 2
    /\ pushes[2].at - pushes[1].at = 10
    /\ request.op = "upload"
    /\ now - last_push_time = 9
    /\ submissions # <<>>
    /\ submissions[1].created_at = isoformat(now)

\* C10: a worker writes the whole set as it read it plus its own change,
\* with no look at the file: a record another request stored after the
\* worker's read is gone after the worker's write.
C10_LastWriterWins ==
    [][\A w \in Workers :
          /\ worker_upload_write(w) =>
                /\ \A r \in Range(submissions') :
                      r \in Range(wk[w].snapshot) \/ r = wk[w].quiz
                /\ \A r \in Range(submissions) :
                      r.email \notin EmailsOf(wk[w].snapshot) \cup {wk[w].quiz.email}
                        => r.email \notin EmailsOf(submissions')
          /\ worker_signup_write(w) =>
                /\ \A u \in Range(users') :
                      u \in Range(wk[w].snapshot) \/ u = wk[w].user
                /\ \A u \in Range(users) :
                      u \notin Range(wk[w].snapshot) /\ u # wk[w].user
                        => u \notin Range(users')]_vars

\* two uploads for different new emails were both answered 200 and only one
\* record is stored; two signups with the same chapter both succeeded
C10_Witness ==
    /\ Cardinality({p.email : p \in uploaded}) = 2
    /\ Len(submissions) = 1
    /\ \A w \in Workers : wk[w].pc = "idle" /\ wk[w].response.op = "signup"
                          /\ wk[w].response.status = 200
    /\ \E p, q \in signed_up : p # q /\ p.chapter = q.chapter
    /\ Len(users) = 1

====
